---- MODULE Spec2Model ----
(***************************************************************************)
(* App Store Connect dSYM synchronisation of sentry:                       *)
(*   src/sentry/tasks/app_store_connect.py   (dsym_download)               *)
(*   src/sentry/lang/native/appconnect.py    (AppConnectClient,            *)
(*                                            ITunesClient)                *)
(* One task invocation is a sequence of steps, one per blocking call of    *)
(* dsym_download.  Optional values (None, an object not yet built) are     *)
(* sequences of length 0 or 1.                                             *)
(***************************************************************************)
EXTENDS FiniteSets, Integers, Sequences, TLC

\* ------------------------------------------------------------------ bounds
\* builds of the single pre-release group the task's vendor may hold
MaxPre == 3
\* builds of the single release group the task's vendor may hold
MaxRel == 2
\* releases per listing kind, and builds per release, for list_builds alone
MaxPreReleases == 2
MaxAppReleases == 1
MaxVersions == 2
\* entries of a project's symbol-source list, for credential resolution alone
MaxSources == 2
\* builds per kind the vendor may hold when two invocations run at once
MaxConcPre == 2
MaxConcRel == 1

\* ------------------------------------------------------- program constants
\* app_store_connect.py:62   if count >= 3: break
Cap == 3

\* ---------------------------------------------------------------- helpers
Min(a, b) == IF a < b THEN a ELSE b

RECURSIVE ConcatAll(_)
ConcatAll(ss) == IF ss = <<>> THEN <<>> ELSE Head(ss) \o ConcatAll(Tail(ss))

\* all sequences over S of length at most n
SeqsUpTo(S, n) == UNION {[1..k -> S] : k \in 0..n}

\* ------------------------------------------------- project configuration
\* symbolicator.APP_STORE_CONNECT_SCHEMA: the required fields of a source
RequiredFields ==
    {"appconnectKey", "appconnectPrivateKey", "appconnectIssuer",
     "itunesSession", "orgId", "appId", "bundleId"}

\* a complete appStoreConnect symbol source
FullSource(id, cookie, key) ==
    [type |-> "appStoreConnect", id |-> id,
     appconnectKey |-> key, appconnectPrivateKey |-> "pem",
     appconnectIssuer |-> "issuer", itunesSession |-> cookie,
     orgId |-> 7, appId |-> "app", bundleId |-> "bundle"]

\* the same source with one field left out
Without(src, f) == [g \in (DOMAIN src) \ {f} |-> src[g]]

\* a symbol source of another integration
OtherSource(id) == [type |-> "http", id |-> id]

CredentialIds == {"a", "b"}
Cookies == {"live", "expired"}

\* jsonschema.validate(config, APP_STORE_CONNECT_SCHEMA)
SchemaValid(config) == RequiredFields \subseteq DOMAIN config

\* AppConnectClient.from_config: an error name, or the client built
from_config_unvalidated(config) ==
    LET get(f) == IF f \in DOMAIN config THEN config[f] ELSE ""
    IN [kind |-> "client",
        client |-> <<[key_id |-> get("appconnectKey"),
                      key |-> get("appconnectPrivateKey"),
                      issuer_id |-> get("appconnectIssuer"),
                      itunes_cookie |-> get("itunesSession"),
                      itunes_org |-> IF "orgId" \in DOMAIN config
                                     THEN config["orgId"] ELSE 0,
                      app_id |-> get("appId")]>>]

from_config(config) ==
    IF ~SchemaValid(config)
    THEN [kind |-> "InvalidConfigError", client |-> <<>>]
    ELSE [kind |-> "client",
          client |-> <<[key_id |-> config["appconnectKey"],
                        key |-> config["appconnectPrivateKey"],
                        issuer_id |-> config["appconnectIssuer"],
                        itunes_cookie |-> config["itunesSession"],
                        itunes_org |-> config["orgId"],
                        app_id |-> config["appId"]]>>]

\* the positions of the entries a (type, id) lookup matches
MatchingSources(srcs, credentials_id) ==
    {i \in DOMAIN srcs : srcs[i]["type"] = "appStoreConnect"
                         /\ srcs[i]["id"] = credentials_id}

MinOf(S) == CHOOSE x \in S : \A y \in S : x <= y
MaxOf(S) == CHOOSE x \in S : \A y \in S : x >= y

\* AppConnectClient.from_project: for ... break / else raise KeyError
from_project_last(srcs, credentials_id) ==
    LET m == MatchingSources(srcs, credentials_id)
    IN IF m = {} THEN [kind |-> "KeyError", client |-> <<>>]
       ELSE from_config(srcs[MaxOf(m)])

from_project(srcs, credentials_id) ==
    LET m == MatchingSources(srcs, credentials_id)
    IN IF m = {} THEN [kind |-> "KeyError", client |-> <<>>]
       ELSE from_config(srcs[MinOf(m)])

\* get_app_store_config(project, credentials_id): the matched entry or None
get_app_store_config(srcs, credentials_id) ==
    LET m == MatchingSources(srcs, credentials_id)
    IN IF m = {} THEN <<>> ELSE <<srcs[MinOf(m)]>>

\* dsym_download lines 25-28: config lookup, None check, from_config
ResolveInTask(srcs, credentials_id) ==
    LET config == get_app_store_config(srcs, credentials_id)
    IN IF config = <<>> THEN [kind |-> "KeyError", client |-> <<>>]
       ELSE from_config(config[1])

\* ------------------------------------------------------------ vendor data
\* one release of the vendor's listing: release["platform"],
\* release["short_version"], release["versions"][k]["version"]
Release(platform, short_version, numbers) ==
    [platform |-> platform, short_version |-> short_version,
     versions |-> [k \in DOMAIN numbers |-> [version |-> numbers[k]]]]

\* appstore_connect.get_pre_release_version_info
get_pre_release_version_info(v) == v.pre_releases

\* appstore_connect.get_build_info: a dict, in insertion order
get_build_info(v) ==
    << <<"pre_releases", v.pre_releases>>, <<"releases", v.releases>> >>

BuildInfo(kind, app_id, platform, version, build_number) ==
    [kind |-> kind, app_id |-> app_id, platform |-> platform,
     version |-> version, build_number |-> build_number]

\* list_builds lines 247-256: the builds of one release
ReleaseBuilds(kind, app_id, release) ==
    [k \in DOMAIN release.versions |->
        BuildInfo(kind, app_id, release.platform, release.short_version,
                  release.versions[k].version)]

\* list_builds lines 241-256: the builds of one (kind_name, results) item
KindBuilds(item, app_id) ==
    LET kind == IF item[1] = "pre_releases" THEN "PRE_RELEASE" ELSE "RELEASE"
    IN ConcatAll([r \in DOMAIN item[2] |->
                      ReleaseBuilds(kind, app_id, item[2][r])])

\* AppConnectClient.list_builds
list_builds(v, app_id, kind) ==
    LET all_results ==
            IF kind = "PRE_RELEASE"
            THEN << <<"pre_releases", get_pre_release_version_info(v)>> >>
            ELSE IF kind = "RELEASE"
            THEN << <<"releases", get_pre_release_version_info(v)>> >>
            ELSE get_build_info(v)
    IN ConcatAll([n \in DOMAIN all_results |->
                      KindBuilds(all_results[n], app_id)])

BuildKinds == {"ALL", "PRE_RELEASE", "RELEASE"}

\* ------------------------------------------------------- vendor's answers
\* itunes_connect.load_session_cookie: the vendor accepts the session cookie
load_session_cookie(itunes_cookie) == itunes_cookie = "live"

\* the vendor's REST API accepts the key the bearer token is signed with
KeyAccepted(key_id) == key_id = "good"

\* what one download_dsyms call can end with
DownloadOutcomes == {"ok", "NoDsymsError", "HTTPError"}

\* what one create_difs_from_dsyms_zip call can end with
IngestOutcomes == {"ok", "CorruptArchive"}

\* ------------------------------------------------------------------ state
VARIABLES
    sources,     \* project option sentry:symbol_sources of the one project
    vendor,      \* the vendor's releases: [pre_releases, releases]
    db,          \* AppConnectBuild rows; a row's primary key is its position
    tmpfiles,    \* the temporary files that exist: [owner, i]
    task,        \* per worker: the locals of its dsym_download invocation
    hist,        \* per worker: the calls of its invocation, db at its start
    ingested,    \* builds whose archive was downloaded and ingested in full
    everRaised,  \* whether any invocation has ended by an exception
    listed,      \* the last list_builds call made on its own, and its result
    resolved     \* the last credential resolution made on its own

vars == <<sources, vendor, db, tmpfiles, task, hist, ingested, everRaised,
          listed, resolved>>

\* Project rows that exist, and the ids a task may be started with
Projects == {1}
ProjectIds == {1, 2}

Workers == DOMAIN task

\* the locals of dsym_download before line 24 has run
Fresh ==
    [pc |-> "idle", project_id |-> 0, credentials_id |-> "",
     config |-> <<>>, client |-> <<>>, itunes_client |-> <<>>,
     builds |-> <<>>, idx |-> 0, count |-> 0, build_state |-> <<>>,
     err |-> ""]

NoHist == [trace |-> <<>>, startDb |-> <<>>]

\* one AppConnectBuild row
Row(project, app_id, bundle_id, platform, short_version, version, fetched) ==
    [project |-> project, app_id |-> app_id, bundle_id |-> bundle_id,
     platform |-> platform, bundle_short_version |-> short_version,
     bundle_version |-> version, fetched |-> fetched]

\* AppConnectBuild.objects.get(project=, app_id=, platform=,
\*     bundle_short_version=, bundle_version=): the rows it matches
MatchingRows_wrong_field(rows, project, build) ==
    {k \in DOMAIN rows :
        /\ rows[k].project = project
        /\ rows[k].app_id = build.app_id
        /\ rows[k].platform = build.platform
        /\ rows[k].bundle_short_version = build.version
        /\ rows[k].bundle_version = build.version}

MatchingRows(rows, project, build) ==
    {k \in DOMAIN rows :
        /\ rows[k].project = project
        /\ rows[k].app_id = build.app_id
        /\ rows[k].platform = build.platform
        /\ rows[k].bundle_short_version = build.version
        /\ rows[k].bundle_version = build.build_number}

\* INSERT into the AppConnectBuild table: the table has no unique constraint
\* over the key of a build, so the row is added beside any other
InsertRow(rows, row) == Append(rows, row)

\* build_state.save() called before line 57 has set the flag
Save_unfetched(rows, bs) ==
    LET row == Row(bs.project, bs.app_id, bs.bundle_id, bs.platform,
                   bs.bundle_short_version, bs.bundle_version, FALSE)
    IN IF bs.pk = 0 THEN InsertRow(rows, row)
       ELSE [rows EXCEPT ![bs.pk] = row]

\* build_state.save(): insert an unsaved object, or update its row
Save(rows, bs) ==
    LET row == Row(bs.project, bs.app_id, bs.bundle_id, bs.platform,
                   bs.bundle_short_version, bs.bundle_version, bs.fetched)
    IN IF bs.pk = 0 THEN InsertRow(rows, row)
       ELSE [rows EXCEPT ![bs.pk] = row]

\* line 33: for build in builds -- the build of the idx-th iteration
BuildAt_reversed(builds, idx) == builds[Len(builds) + 1 - idx]

BuildAt(builds, idx) == builds[idx]

\* line 53: if not build_state.fetched
NeedsFetch_always(bs) == TRUE

NeedsFetch(bs) == ~bs.fetched

\* line 62: if count >= 3
CapReached_off_by_one(count) == count > Cap

CapReached(count) == count >= Cap

\* line 54: leaving the with block of the NamedTemporaryFile deletes it
CloseTemp_keep(files, w) == files

CloseTemp(files, w) == {f \in files : f.owner # w}

\* lines 56-57: an exception of create_difs_from_dsyms_zip leaves the loop
AfterIngest_swallow(outcome) == "mark"

AfterIngest(outcome) == IF outcome = "ok" THEN "mark" ELSE "failed"

Event(op, i, res) == [op |-> op, i |-> i, res |-> res]

Log(w, e) == [hist EXCEPT ![w].trace = Append(@, e)]

\* the vendor the task runs against: np pre-release builds of version 1,
\* nr release builds of version rv
TaskVendor(np, nr, rv) ==
    [pre_releases |->
        IF np = 0 THEN <<>>
        ELSE <<Release("iOS", 1, [k \in 1..np |-> k])>>,
     releases |->
        IF nr = 0 THEN <<>>
        ELSE <<Release("iOS", rv, [k \in 1..nr |-> k])>>]

TaskVendors ==
    {TaskVendor(np, nr, rv) : np \in 0..MaxPre, nr \in 0..MaxRel, rv \in {1, 2}}

\* the symbol-source lists the task runs against
TaskSourceLists ==
    { <<>>,
      <<OtherSource("a"), FullSource("a", "live", "good")>>,
      <<FullSource("a", "expired", "good")>>,
      <<FullSource("a", "live", "revoked")>>,
      <<Without(FullSource("a", "live", "good"), "appconnectPrivateKey")>>,
      <<Without(FullSource("a", "live", "good"), "bundleId"),
        FullSource("a", "live", "good")>> }

NoCall == <<>>

Init ==
    /\ sources \in TaskSourceLists
    /\ vendor \in TaskVendors
    /\ db = <<>>
    /\ tmpfiles = {}
    /\ task = [w \in {"w1"} |-> Fresh]
    /\ hist = [w \in {"w1"} |-> NoHist]
    /\ ingested = {}
    /\ everRaised = FALSE
    /\ listed = NoCall
    /\ resolved = NoCall

\* ------------------------------------------------- dsym_download, by step
Goto(w, pc) == [task EXCEPT ![w].pc = pc]

Raise(w, e) == [task EXCEPT ![w].pc = "failed", ![w].err = e]

\* lines 20-24: the task starts; Project.objects.get(pk=project_id)
Start(w, project_id, credentials_id) ==
    /\ task[w].pc \in {"idle", "done", "failed"}
    /\ hist' = [hist EXCEPT ![w] = [trace |-> <<>>, startDb |-> db]]
    /\ IF project_id \in Projects
       THEN /\ task' = [task EXCEPT ![w] =
                           [Fresh EXCEPT !.pc = "config",
                                         !.project_id = project_id,
                                         !.credentials_id = credentials_id]]
            /\ UNCHANGED everRaised
       ELSE /\ task' = [task EXCEPT ![w] =
                           [Fresh EXCEPT !.pc = "failed",
                                         !.project_id = project_id,
                                         !.credentials_id = credentials_id,
                                         !.err = "DoesNotExist"]]
            /\ everRaised' = TRUE
    /\ UNCHANGED <<sources, vendor, db, tmpfiles, ingested, listed, resolved>>

\* lines 25-27: config = get_app_store_config(...); raise KeyError if None
GetConfig(w) ==
    /\ task[w].pc = "config"
    /\ LET config == get_app_store_config(sources, task[w].credentials_id)
       IN IF config = <<>>
          THEN /\ task' = Raise(w, "KeyError")
               /\ everRaised' = TRUE
          ELSE /\ task' = [task EXCEPT ![w].pc = "from_config",
                                       ![w].config = config]
               /\ UNCHANGED everRaised
    /\ UNCHANGED <<sources, vendor, db, tmpfiles, hist, ingested, listed,
                   resolved>>

\* line 28: client = AppConnectClient.from_config(config)
FromConfig(w) ==
    /\ task[w].pc = "from_config"
    /\ LET r == from_config(task[w].config[1])
       IN IF r.kind # "client"
          THEN /\ task' = Raise(w, r.kind)
               /\ everRaised' = TRUE
          ELSE /\ task' = [task EXCEPT ![w].pc = "itunes_client",
                                       ![w].client = r.client]
               /\ UNCHANGED everRaised
    /\ UNCHANGED <<sources, vendor, db, tmpfiles, hist, ingested, listed,
                   resolved>>

\* line 29: itunes_client = client.itunes_client(), with ITunesClient.__init__
itunes_client_lazy(w) ==
    /\ task[w].pc = "itunes_client"
    /\ hist' = Log(w, Event("itunes_client", 0, "ok"))
    /\ task' = [task EXCEPT ![w].pc = "list_builds",
                            ![w].itunes_client =
                                <<task[w].client[1].itunes_cookie>>]
    /\ UNCHANGED <<sources, vendor, db, tmpfiles, ingested, everRaised,
                   listed, resolved>>

itunes_client(w) ==
    /\ task[w].pc = "itunes_client"
    /\ LET cookie == task[w].client[1].itunes_cookie
       IN IF load_session_cookie(cookie)
          THEN /\ hist' = Log(w, Event("itunes_client", 0, "ok"))
               /\ task' = [task EXCEPT ![w].pc = "list_builds",
                                       ![w].itunes_client = <<cookie>>]
               /\ UNCHANGED everRaised
          ELSE /\ hist' = Log(w, Event("itunes_client", 0, "InvalidSession"))
               /\ task' = Raise(w, "InvalidSession")
               /\ everRaised' = TRUE
    /\ UNCHANGED <<sources, vendor, db, tmpfiles, ingested, listed, resolved>>

\* lines 31-32: builds = client.list_builds(); count = 0
ListBuilds(w) ==
    /\ task[w].pc = "list_builds"
    /\ LET client == task[w].client[1]
           builds == list_builds(vendor, client.app_id, "ALL")
       IN IF ~KeyAccepted(client.key_id)
          THEN /\ hist' = Log(w, Event("list_builds", 0,
                                       "InvalidCredentialsError"))
               /\ task' = Raise(w, "InvalidCredentialsError")
               /\ everRaised' = TRUE
          ELSE /\ hist' = Log(w, Event("list_builds", 0, "ok"))
               /\ task' = [task EXCEPT
                              ![w].pc = IF builds = <<>> THEN "done"
                                        ELSE "lookup",
                              ![w].builds = builds,
                              ![w].idx = IF builds = <<>> THEN 0 ELSE 1,
                              ![w].count = 0]
               /\ UNCHANGED everRaised
    /\ UNCHANGED <<sources, vendor, db, tmpfiles, ingested, listed, resolved>>

\* lines 33-53: the FetchRecord of the next build is looked up or built
Lookup(w) ==
    /\ task[w].pc = "lookup"
    /\ LET t == task[w]
           build == BuildAt(t.builds, t.idx)
           m == MatchingRows(db, t.project_id, build)
           config == t.config[1]
       IN IF Cardinality(m) > 1
          THEN /\ hist' = Log(w, Event("lookup", t.idx,
                                       "MultipleObjectsReturned"))
               /\ task' = Raise(w, "MultipleObjectsReturned")
               /\ everRaised' = TRUE
          ELSE IF Cardinality(m) = 1
          THEN LET k == CHOOSE k \in m : TRUE
                   bs == [pk |-> k, project |-> db[k].project,
                          app_id |-> db[k].app_id,
                          bundle_id |-> db[k].bundle_id,
                          platform |-> db[k].platform,
                          bundle_short_version |-> db[k].bundle_short_version,
                          bundle_version |-> db[k].bundle_version,
                          fetched |-> db[k].fetched]
               IN /\ hist' = Log(w, Event("lookup", t.idx,
                                   IF bs.fetched THEN "fetched" ELSE "unfetched"))
                  /\ task' = [task EXCEPT
                                 ![w].build_state = <<bs>>,
                                 ![w].pc = IF NeedsFetch(bs) THEN "open"
                                           ELSE "count"]
                  /\ UNCHANGED everRaised
          ELSE IF "bundleId" \notin DOMAIN config
          THEN /\ hist' = Log(w, Event("lookup", t.idx, "KeyError"))
               /\ task' = Raise(w, "KeyError")
               /\ everRaised' = TRUE
          ELSE LET bs == [pk |-> 0, project |-> t.project_id,
                          app_id |-> build.app_id,
                          bundle_id |-> config["bundleId"],
                          platform |-> build.platform,
                          bundle_short_version |-> build.version,
                          bundle_version |-> build.build_number,
                          fetched |-> FALSE]
               IN /\ hist' = Log(w, Event("lookup", t.idx, "new"))
                  /\ task' = [task EXCEPT
                                 ![w].build_state = <<bs>>,
                                 ![w].pc = IF NeedsFetch(bs) THEN "open"
                                           ELSE "count"]
                  /\ UNCHANGED everRaised
    /\ UNCHANGED <<sources, vendor, db, tmpfiles, ingested, listed, resolved>>

\* line 54: with tempfile.NamedTemporaryFile() as dsyms_zip
OpenTemp(w) ==
    /\ task[w].pc = "open"
    /\ tmpfiles' = tmpfiles \cup {[owner |-> w, i |-> task[w].idx]}
    /\ hist' = Log(w, Event("open", task[w].idx, "ok"))
    /\ task' = Goto(w, "download")
    /\ UNCHANGED <<sources, vendor, db, ingested, everRaised, listed,
                   resolved>>

\* line 55: itunes_client.download_dsyms(build, dsyms_zip.name)
Download(w) ==
    /\ task[w].pc = "download"
    /\ \E outcome \in DownloadOutcomes :
          /\ hist' = Log(w, Event("download", task[w].idx, outcome))
          /\ IF outcome = "ok"
             THEN /\ task' = Goto(w, "ingest")
                  /\ UNCHANGED <<tmpfiles, everRaised>>
             ELSE /\ task' = Raise(w, outcome)
                  /\ tmpfiles' = CloseTemp(tmpfiles, w)
                  /\ everRaised' = TRUE
    /\ UNCHANGED <<sources, vendor, db, ingested, listed, resolved>>

\* line 56 and the end of the with block:
\* create_difs_from_dsyms_zip(dsyms_zip.name, project)
Ingest(w) ==
    /\ task[w].pc = "ingest"
    /\ \E outcome \in IngestOutcomes :
          LET t == task[w]
              next == AfterIngest(outcome)
          IN /\ hist' = Log(w, Event("ingest", t.idx, outcome))
             /\ tmpfiles' = CloseTemp(tmpfiles, w)
             /\ task' = IF next = "failed" THEN Raise(w, outcome)
                        ELSE Goto(w, next)
             /\ everRaised' = (everRaised \/ next = "failed")
             /\ ingested' = IF outcome = "ok"
                            THEN ingested \cup {<<t.project_id,
                                              BuildAt(t.builds, t.idx)>>}
                            ELSE ingested
    /\ UNCHANGED <<sources, vendor, db, listed, resolved>>

\* lines 57-59: build_state.fetched = True; build_state.save()
MarkFetched(w) ==
    /\ task[w].pc = "mark"
    /\ LET bs == [task[w].build_state[1] EXCEPT !.fetched = TRUE]
       IN /\ db' = Save(db, bs)
          /\ task' = [task EXCEPT
                         ![w].pc = "count",
                         ![w].build_state =
                             <<[bs EXCEPT !.pk = IF bs.pk = 0 THEN Len(db) + 1
                                                 ELSE bs.pk]>>]
    /\ hist' = Log(w, Event("save", task[w].idx, "ok"))
    /\ UNCHANGED <<sources, vendor, tmpfiles, ingested, everRaised, listed,
                   resolved>>

\* lines 61-63 and the loop header: count += 1; if count >= 3: break
CountStep(w) ==
    /\ task[w].pc = "count"
    /\ LET t == task[w]
           count == t.count + 1
           stop == CapReached(count) \/ t.idx = Len(t.builds)
       IN task' = [task EXCEPT
                      ![w].count = count,
                      ![w].pc = IF stop THEN "done" ELSE "lookup",
                      ![w].idx = IF stop THEN t.idx ELSE t.idx + 1]
    /\ UNCHANGED <<sources, vendor, db, tmpfiles, hist, ingested, everRaised,
                   listed, resolved>>

Next ==
    \/ \E w \in Workers, project_id \in ProjectIds,
          credentials_id \in CredentialIds :
          Start(w, project_id, credentials_id)
    \/ \E w \in Workers : GetConfig(w)
    \/ \E w \in Workers : FromConfig(w)
    \/ \E w \in Workers : itunes_client(w)
    \/ \E w \in Workers : ListBuilds(w)
    \/ \E w \in Workers : Lookup(w)
    \/ \E w \in Workers : OpenTemp(w)
    \/ \E w \in Workers : Download(w)
    \/ \E w \in Workers : Ingest(w)
    \/ \E w \in Workers : MarkFetched(w)
    \/ \E w \in Workers : CountStep(w)

Spec == Init /\ [][Next]_vars

\* two invocations for the same project and source at once: the task is
\* queued twice and two workers of the queue pick it up
ConcVendors ==
    {TaskVendor(np, nr, 2) : np \in 0..MaxConcPre, nr \in 0..MaxConcRel}

InitConc ==
    /\ sources = <<FullSource("a", "live", "good")>>
    /\ vendor \in ConcVendors
    /\ db = <<>>
    /\ tmpfiles = {}
    /\ task = [w \in {"w1", "w2"} |-> Fresh]
    /\ hist = [w \in {"w1", "w2"} |-> NoHist]
    /\ ingested = {}
    /\ everRaised = FALSE
    /\ listed = NoCall
    /\ resolved = NoCall

SpecConc == InitConc /\ [][Next]_vars

\* the task is rescheduled for as long as the source is configured
FairSpec == Spec /\ WF_vars(Next)

\* ------------------------------------------- list_builds called on its own
\* the releases a vendor may hold under one kind
Releases ==
    {Release("iOS", sv, numbers) :
        sv \in {1, 2}, numbers \in SeqsUpTo({1, 2}, MaxVersions)}

ListVendors ==
    {[pre_releases |-> p, releases |-> r] :
        p \in SeqsUpTo(Releases, MaxPreReleases),
        r \in SeqsUpTo(Releases, MaxAppReleases)}

InitList ==
    /\ sources = <<>>
    /\ vendor \in ListVendors
    /\ db = <<>>
    /\ tmpfiles = {}
    /\ task = [w \in {"w1"} |-> Fresh]
    /\ hist = [w \in {"w1"} |-> NoHist]
    /\ ingested = {}
    /\ everRaised = FALSE
    /\ listed = NoCall
    /\ resolved = NoCall

\* client.list_builds(kind) of a client of application "app"
CallListBuilds(kind) ==
    /\ listed' = <<[kind |-> kind,
                    builds |-> list_builds(vendor, "app", kind)]>>
    /\ UNCHANGED <<sources, vendor, db, tmpfiles, task, hist, ingested,
                   everRaised, resolved>>

NextList == \E kind \in BuildKinds : CallListBuilds(kind)

SpecList == InitList /\ [][NextList]_vars

\* ------------------------------------ credential resolution on its own
\* the entries a symbol-source list may hold: sources of another
\* integration, complete appStoreConnect sources, and appStoreConnect
\* sources that lack one required field
ResolveEntries ==
    {OtherSource(id) : id \in CredentialIds}
    \cup {FullSource(id, c, "good") : id \in CredentialIds, c \in Cookies}
    \cup {Without(FullSource(id, "live", "good"), f) :
             id \in CredentialIds, f \in RequiredFields}

InitResolve ==
    /\ sources \in SeqsUpTo(ResolveEntries, MaxSources)
    /\ vendor = TaskVendor(0, 0, 1)
    /\ db = <<>>
    /\ tmpfiles = {}
    /\ task = [w \in {"w1"} |-> Fresh]
    /\ hist = [w \in {"w1"} |-> NoHist]
    /\ ingested = {}
    /\ everRaised = FALSE
    /\ listed = NoCall
    /\ resolved = NoCall

\* AppConnectClient.from_project(project, credentials_id)
CallFromProject(credentials_id) ==
    /\ resolved' = <<[via |-> "from_project", id |-> credentials_id,
                      out |-> from_project(sources, credentials_id)]>>
    /\ UNCHANGED <<sources, vendor, db, tmpfiles, task, hist, ingested,
                   everRaised, listed>>

\* the resolution dsym_download makes, lines 25-28
CallResolveInTask(credentials_id) ==
    /\ resolved' = <<[via |-> "dsym_download", id |-> credentials_id,
                      out |-> ResolveInTask(sources, credentials_id)]>>
    /\ UNCHANGED <<sources, vendor, db, tmpfiles, task, hist, ingested,
                   everRaised, listed>>

NextResolve ==
    \/ \E credentials_id \in CredentialIds : CallFromProject(credentials_id)
    \/ \E credentials_id \in CredentialIds : CallResolveInTask(credentials_id)

SpecResolve == InitResolve /\ [][NextResolve]_vars

\* ================================================================= claims
Trace(w) == hist[w].trace

\* the positions of the calls of kind op in the invocation of w
Calls(w, op) == {k \in DOMAIN Trace(w) : Trace(w)[k].op = op}

\* the natural key of a listed build
BuildKey(b) == <<b.app_id, b.platform, b.version, b.build_number>>

\* the positions of a listing whose build has a row with fetched = true
FetchedPositions(rows, project, builds) ==
    {i \in DOMAIN builds :
        \E k \in MatchingRows(rows, project, builds[i]) : rows[k].fetched}

DistinctBuilds(builds) ==
    \A i, j \in DOMAIN builds :
        BuildKey(builds[i]) = BuildKey(builds[j]) => i = j

\* C1: one invocation makes at most Cap download calls, Cap ingest calls and
\* Cap saves; and an invocation that ends normally on a listing of n distinct
\* builds, none of them fetched when it started, leaves exactly min(Cap, n)
\* of them fetched and the other n - min(Cap, n) not fetched (5 builds:
\* 3 fetched, 2 not).
C1_CapPerRun ==
    \A w \in Workers :
        LET t == task[w]
            n == Len(t.builds)
            fetched == FetchedPositions(db, t.project_id, t.builds)
        IN /\ Cardinality(Calls(w, "download")) <= Cap
           /\ Cardinality(Calls(w, "ingest")) <= Cap
           /\ Cardinality(Calls(w, "save")) <= Cap
           /\ ( /\ t.pc = "done"
                /\ DistinctBuilds(t.builds)
                /\ FetchedPositions(hist[w].startDb, t.project_id,
                                    t.builds) = {} )
              => /\ Cardinality(fetched) = Min(Cap, n)
                 /\ Cardinality((DOMAIN t.builds) \ fetched) = n - Min(Cap, n)

\* C1 witness: an invocation over 5 unfetched builds has ended with exactly
\* 3 of them fetched.
C1_Witness ==
    \E w \in Workers :
        /\ task[w].pc = "done"
        /\ Len(task[w].builds) = 5
        /\ DistinctBuilds(task[w].builds)
        /\ FetchedPositions(hist[w].startDb, task[w].project_id,
                            task[w].builds) = {}
        /\ Cardinality(FetchedPositions(db, task[w].project_id,
                                        task[w].builds)) = 3

\* C2: once a lookup of the invocation has found the build's record with
\* fetched = true, the invocation makes no download and no ingest call for
\* that build; and a build whose record was fetched when the invocation
\* started gets no download and no ingest call in it at all.
C2_FetchedNeverDownloaded ==
    \A w \in Workers :
        LET t == task[w]
            tr == Trace(w)
            work == Calls(w, "download") \cup Calls(w, "ingest")
        IN /\ \A a \in Calls(w, "lookup"), b \in work :
                 (a < b /\ tr[a].res = "fetched")
                 => BuildKey(t.builds[tr[b].i]) # BuildKey(t.builds[tr[a].i])
           /\ \A b \in work :
                 tr[b].i \notin FetchedPositions(hist[w].startDb,
                                                 t.project_id, t.builds)

\* C2 witness: a re-run has looked up a build that was already fetched and
\* has gone on to download another one.
C2_Witness ==
    \E w \in Workers :
        /\ \E a \in Calls(w, "lookup") : Trace(w)[a].res = "fetched"
        /\ Calls(w, "download") # {}
        /\ FetchedPositions(hist[w].startDb, task[w].project_id,
                            task[w].builds) # {}

\* every build of the vendor's full listing has a row with fetched = true
AllListedFetched ==
    LET builds == list_builds(vendor, "app", "ALL")
    IN FetchedPositions(db, 1, builds) = DOMAIN builds

\* C3: when no invocation ever raises (the listing is fixed and every
\* download and ingest succeeds), re-running the task eventually leaves every
\* listed build fetched.
C3_EveryBuildEventuallyFetched == <>(everRaised \/ AllListedFetched)

\* C4: every persisted row with fetched = true belongs to a build whose
\* archive was downloaded and then ingested without error.
C4_FetchedOnlyAfterIngest ==
    \A k \in DOMAIN db :
        db[k].fetched =>
            \E x \in ingested :
                /\ x[1] = db[k].project
                /\ k \in MatchingRows(db, x[1], x[2])

\* C4 witness: a row is fetched while another invocation has failed its
\* ingest.
C4_Witness ==
    /\ \E k \in DOMAIN db : db[k].fetched
    /\ \E w \in Workers : task[w].pc = "failed"
                          /\ task[w].err = "CorruptArchive"

PerBuildErrors == {"NoDsymsError", "HTTPError", "CorruptArchive"}

\* C5: a download or ingest call that fails does not end the invocation by
\* an exception, leaves the build not fetched, and when the invocation has
\* ended and the failed build was not the last one within the cap, the next
\* build of the listing has been looked up.
C5_FailureDoesNotAbort ==
    \A w \in Workers :
        LET t == task[w]
            tr == Trace(w)
        IN \A k \in Calls(w, "download") \cup Calls(w, "ingest") :
              tr[k].res \in PerBuildErrors =>
                 /\ t.pc # "failed"
                 /\ \A s \in Calls(w, "save") : tr[s].i # tr[k].i
                 /\ ( /\ t.pc = "done"
                      /\ tr[k].i < Min(Cap, Len(t.builds)) )
                    => \E a \in Calls(w, "lookup") : tr[a].i = tr[k].i + 1

\* the source the invocation of w was started for cannot be used: it is
\* not configured, fails the schema, or the vendor rejects its session
\* cookie or its API key
ConfigOrAuthFailure(w) ==
    LET m == MatchingSources(sources, task[w].credentials_id)
        config == sources[MinOf(m)]
    IN \/ m = {}
       \/ ~(RequiredFields \subseteq DOMAIN config)
       \/ config["itunesSession"] # "live"
       \/ config["appconnectKey"] # "good"

ConfigAuthErrors ==
    {"KeyError", "InvalidConfigError", "InvalidSession",
     "InvalidCredentialsError"}

\* what an invocation does to builds and records
WorkCalls(w) ==
    Calls(w, "lookup") \cup Calls(w, "open") \cup Calls(w, "download")
    \cup Calls(w, "ingest") \cup Calls(w, "save")

\* C6: an invocation whose source is unusable (not found, schema violation,
\* session rejected, credentials rejected) never enters the loop over the
\* builds: it makes no download call, opens no temporary file, creates and
\* modifies no record, and does not end normally; and an invocation that has
\* ended by one of these errors has done none of that.
C6_ConfigFailureAborts ==
    \A w \in Workers :
        LET t == task[w]
        IN /\ (t.pc # "idle" /\ t.project_id \in Projects
               /\ ConfigOrAuthFailure(w))
              => /\ WorkCalls(w) = {}
                 /\ db = hist[w].startDb
                 /\ t.pc \in {"config", "from_config", "itunes_client",
                              "list_builds", "failed"}
           /\ (t.pc = "failed" /\ t.err \in ConfigAuthErrors)
              => WorkCalls(w) = {} /\ db = hist[w].startDb

\* C6 witness: the listing has rejected the credentials of a source whose
\* vendor holds builds.
C6_Witness ==
    \E w \in Workers :
        /\ task[w].pc = "failed"
        /\ task[w].err = "InvalidCredentialsError"
        /\ ConfigOrAuthFailure(w)
        /\ vendor.pre_releases # <<>>

\* the source the invocation of w was started for passes the schema and
\* holds a session cookie the vendor rejects
ExpiredCookie(w) ==
    LET m == MatchingSources(sources, task[w].credentials_id)
    IN /\ task[w].pc # "idle"
       /\ task[w].project_id \in Projects
       /\ m # {}
       /\ RequiredFields \subseteq DOMAIN sources[MinOf(m)]
       /\ sources[MinOf(m)]["itunesSession"] # "live"

\* C7: with an expired session cookie the invocation makes no listing call
\* and no download call, before or after the ITunesClient is constructed;
\* its only call is the construction, which fails.
C7_SessionCheckedAtConstruction ==
    \A w \in Workers :
        ExpiredCookie(w) =>
            /\ Calls(w, "list_builds") = {}
            /\ Calls(w, "download") = {}
            /\ task[w].itunes_client = <<>>
            /\ task[w].pc \in {"config", "from_config", "itunes_client",
                               "failed"}
            /\ task[w].pc = "failed" =>
                  /\ task[w].err = "InvalidSession"
                  /\ Trace(w) = <<Event("itunes_client", 0, "InvalidSession")>>

\* C7 witness: construction has failed on an expired cookie while the vendor
\* holds builds to list.
C7_Witness ==
    \E w \in Workers :
        /\ ExpiredCookie(w)
        /\ task[w].pc = "failed"
        /\ task[w].err = "InvalidSession"
        /\ vendor.pre_releases # <<>>

FilesOf(w) == {f \in tmpfiles : f.owner = w}

\* C8: an invocation owns at most one temporary file, and none unless it is
\* between opening the file and the end of the ingest of that build; so none
\* once it has ended, normally or by an exception.
C8_TempFileScoped ==
    \A w \in Workers :
        /\ Cardinality(FilesOf(w)) <= 1
        /\ task[w].pc \notin {"download", "ingest"} => FilesOf(w) = {}
        /\ task[w].pc \in {"download", "ingest"}
              => FilesOf(w) = {[owner |-> w, i |-> task[w].idx]}

\* C8 witness: the ingest of a downloaded archive has failed, in an
\* invocation that had already processed another build.
C8_Witness ==
    \E w \in Workers :
        /\ task[w].pc = "failed"
        /\ task[w].err = "CorruptArchive"
        /\ Calls(w, "save") # {}
        /\ tmpfiles = {}

\* the client the claim expects of a source entry
ClientOf(e) ==
    [key_id |-> e["appconnectKey"], key |-> e["appconnectPrivateKey"],
     issuer_id |-> e["appconnectIssuer"], itunes_cookie |-> e["itunesSession"],
     itunes_org |-> e["orgId"], app_id |-> e["appId"]]

\* C9: a credential resolution ends in one of three ways: the not-found
\* error when no entry has type appStoreConnect and the identifier;
\* InvalidConfigError and no client when the first such entry lacks a
\* required field; otherwise a client holding the fields of the first such
\* entry.
C9_ResolutionOutcomes ==
    resolved # NoCall =>
        LET r == resolved[1]
            hits == {i \in DOMAIN sources :
                        /\ sources[i]["type"] = "appStoreConnect"
                        /\ sources[i]["id"] = r.id}
            first == CHOOSE i \in hits : \A j \in hits : i <= j
        IN IF hits = {}
           THEN r.out.kind = "KeyError" /\ r.out.client = <<>>
           ELSE IF \E f \in RequiredFields : f \notin DOMAIN sources[first]
           THEN r.out.kind = "InvalidConfigError" /\ r.out.client = <<>>
           ELSE r.out.kind = "client"
                /\ r.out.client = <<ClientOf(sources[first])>>

\* C9 witness: from_project has resolved an identifier that two entries
\* carry, the first complete and the second lacking a field.
C9_Witness ==
    /\ resolved # NoCall
    /\ resolved[1].via = "from_project"
    /\ resolved[1].out.kind = "client"
    /\ Len(sources) = 2
    /\ sources[1]["id"] = resolved[1].id
    /\ sources[2]["id"] = resolved[1].id
    /\ sources[2]["type"] = "appStoreConnect"
    /\ ~(RequiredFields \subseteq DOMAIN sources[2])

RECURSIVE Tagged(_, _)
\* the builds of a sequence of releases, in order, each tagged kind
Tagged(releases, kind) ==
    IF releases = <<>> THEN <<>>
    ELSE [k \in DOMAIN Head(releases).versions |->
             [kind |-> kind, app_id |-> "app",
              platform |-> Head(releases).platform,
              version |-> Head(releases).short_version,
              build_number |-> Head(releases).versions[k].version]]
         \o Tagged(Tail(releases), kind)

\* C10: list_builds(PRE_RELEASE) returns the vendor's pre-release builds
\* tagged PRE_RELEASE, list_builds(RELEASE) its release builds tagged
\* RELEASE, and list_builds(ALL) both, each tagged with its own kind.
C10_ListsWhatKindNames ==
    listed # NoCall =>
        LET pre == Tagged(vendor.pre_releases, "PRE_RELEASE")
            rel == Tagged(vendor.releases, "RELEASE")
        IN listed[1].builds =
              IF listed[1].kind = "PRE_RELEASE" THEN pre
              ELSE IF listed[1].kind = "RELEASE" THEN rel
              ELSE pre \o rel

\* the place of a call within the handling of one build
Rank(op) ==
    IF op = "lookup" THEN 1 ELSE IF op = "open" THEN 2
    ELSE IF op = "download" THEN 3 ELSE IF op = "ingest" THEN 4 ELSE 5

\* C11: within an invocation the calls follow the listing: a call for a
\* later position never precedes a call for an earlier one, no position is
\* looked up twice, the calls for one build come in the order lookup, open,
\* download, ingest, save (so the download and ingest of a build are over
\* before the next lookup), and the record in hand is the one of the build
\* at the current position of the list list_builds returned.
C11_ListingOrderOneAtATime ==
    \A w \in Workers :
        LET t == task[w]
            tr == Trace(w)
        IN /\ \A a, b \in WorkCalls(w) :
                 a < b =>
                    /\ tr[a].i <= tr[b].i
                    /\ tr[a].i = tr[b].i => Rank(tr[a].op) < Rank(tr[b].op)
           /\ \A k \in WorkCalls(w) : tr[k].i \in DOMAIN t.builds
           /\ (t.pc \in {"open", "download", "ingest", "mark", "count"})
              => /\ Len(t.build_state) = 1
                 /\ <<t.build_state[1].app_id, t.build_state[1].platform,
                      t.build_state[1].bundle_short_version,
                      t.build_state[1].bundle_version>>
                    = BuildKey(t.builds[t.idx])
                 /\ \A k \in WorkCalls(w) : tr[k].i <= t.idx
                 /\ \E k \in Calls(w, "lookup") : tr[k].i = t.idx

\* C11 witness: an invocation has downloaded and saved two builds and has
\* looked up a third.
C11_Witness ==
    \E w \in Workers :
        /\ Cardinality(Calls(w, "save")) = 2
        /\ Cardinality(Calls(w, "lookup")) = 3
        /\ DistinctBuilds(task[w].builds)

\* row is the record of build b of the project
RowIsFor(row, project, b) ==
    /\ row.project = project
    /\ <<row.app_id, row.platform, row.bundle_short_version,
         row.bundle_version>> = BuildKey(b)

\* the step appends a save call to the log of w
SavesNow(w) ==
    /\ Len(hist'[w].trace) = Len(hist[w].trace) + 1
    /\ hist'[w].trace[Len(hist'[w].trace)].op = "save"

\* C12, one step: no row is deleted or re-keyed, no fetched row becomes
\* unfetched, and a save is made only for a build that has no fetched row yet
C12_Step ==
    /\ Len(db') >= Len(db)
    /\ \A k \in DOMAIN db :
          /\ [db'[k] EXCEPT !.fetched = FALSE] = [db[k] EXCEPT !.fetched = FALSE]
          /\ db[k].fetched => db'[k].fetched
    /\ \A w \in Workers :
          SavesNow(w) =>
             LET b == task[w].builds[hist'[w].trace[Len(hist'[w].trace)].i]
             IN /\ \A k \in DOMAIN db :
                      RowIsFor(db[k], task[w].project_id, b) => ~db[k].fetched
                /\ \E k \in DOMAIN db' :
                      RowIsFor(db'[k], task[w].project_id, b) /\ db'[k].fetched

\* C12, one invocation: no build is downloaded twice, also when the listing
\* names it twice
C12_OneDownloadPerBuild ==
    \A w \in Workers :
        \A a, b \in Calls(w, "download") :
            BuildKey(task[w].builds[Trace(w)[a].i])
              = BuildKey(task[w].builds[Trace(w)[b].i]) => a = b

\* C12: over sequential invocations the records are monotone: rows are never
\* deleted, fetched never goes back to false, fetched = true is written at
\* most once per record, and a build listed twice is downloaded at most once.
C12_RecordsMonotone == [][C12_Step]_vars /\ []C12_OneDownloadPerBuild

\* C12 witness: the listing names a build twice; the invocation has saved
\* it at its first position and found it fetched at its second.
C12_Witness ==
    \E w \in Workers :
        \E a \in Calls(w, "save"), b \in Calls(w, "lookup") :
            /\ a < b
            /\ Trace(w)[b].res = "fetched"
            /\ Trace(w)[a].i < Trace(w)[b].i
            /\ BuildKey(task[w].builds[Trace(w)[a].i])
                 = BuildKey(task[w].builds[Trace(w)[b].i])

\* the rows of the table that carry the key of row k
SameKeyRows(k) ==
    {j \in DOMAIN db :
        [db[j] EXCEPT !.fetched = FALSE] = [db[k] EXCEPT !.fetched = FALSE]}

\* C13: whatever the interleaving of two invocations for the same project
\* and source, the table holds at most one row per (project, app id, bundle
\* id, platform, version, build number), and no lookup fails on that build:
\* an invocation that looks it up finds the one row and skips it.
C13_OneRowPerKey ==
    /\ \A k \in DOMAIN db : SameKeyRows(k) = {k}
    /\ \A w \in Workers : task[w].err # "MultipleObjectsReturned"

\* the rows of the table that are the record of the build at position i of
\* the listing of w
RowsOfBuild(w, i) ==
    {k \in DOMAIN db : RowIsFor(db[k], task[w].project_id, task[w].builds[i])}

\* the build at position i of the listing of w has been downloaded and
\* ingested in full
Ingested(w, i) ==
    \E x \in ingested :
        x[1] = task[w].project_id
        /\ BuildKey(x[2]) = BuildKey(task[w].builds[i])

\* C14 as claimed: once a lookup has found no record for a build, a row for
\* its key is persisted, with fetched = false until the build has been
\* downloaded and ingested.
C14_RecordCreatedAtLookup ==
    \A w \in Workers :
        \A k \in Calls(w, "lookup") :
            Trace(w)[k].res = "new" =>
                /\ RowsOfBuild(w, Trace(w)[k].i) # {}
                /\ ~Ingested(w, Trace(w)[k].i)
                     => \A r \in RowsOfBuild(w, Trace(w)[k].i) : ~db[r].fetched

\* C14 amended: a lookup that finds no record leaves only an unsaved record
\* with fetched = false in the invocation; no row for the build exists until
\* its save, which follows its ingest and inserts the row with fetched =
\* true; so after a failed download or ingest the build has no row, and no
\* row with fetched = false is ever persisted.
C14_RecordPersistedOnlyWhenFetched ==
    /\ \A r \in DOMAIN db : db[r].fetched
    /\ \A w \in Workers :
          LET t == task[w]
              tr == Trace(w)
          IN /\ \A k \in Calls(w, "lookup") :
                   tr[k].res = "new" =>
                      IF \E s \in Calls(w, "save") : tr[s].i = tr[k].i
                      THEN /\ Ingested(w, tr[k].i)
                           /\ \E r \in RowsOfBuild(w, tr[k].i) : db[r].fetched
                      ELSE /\ RowsOfBuild(w, tr[k].i) = {}
                           /\ t.idx = tr[k].i
                           /\ Len(t.build_state) = 1
                           /\ t.build_state[1].pk = 0
                           /\ ~t.build_state[1].fetched
             /\ (t.pc = "failed" /\ t.err \in PerBuildErrors)
                => RowsOfBuild(w, t.idx) = {}

\* C14 witness: the ingest of a build that had no record has failed, after
\* another build of the invocation was saved.
C14_Witness ==
    \E w \in Workers :
        /\ task[w].pc = "failed"
        /\ task[w].err = "CorruptArchive"
        /\ \E k \in Calls(w, "lookup") :
              Trace(w)[k].res = "new" /\ Trace(w)[k].i = task[w].idx
        /\ RowsOfBuild(w, task[w].idx) = {}
        /\ Calls(w, "save") # {}

\* the positions of its listing the invocation of w has looked up
Examined(w) == {Trace(w)[k].i : k \in Calls(w, "lookup")}

\* C15: count is the number of builds the invocation has finished with,
\* downloaded or skipped alike; the invocation looks up the positions of its
\* listing one after the other from the first, never touches a position
\* beyond the cap, and when it ends without an error it has examined exactly
\* the first min(Cap, n) positions of its n builds.
C15_CounterCountsEveryBuild ==
    \A w \in Workers :
        LET t == task[w]
            n == Len(t.builds)
        IN /\ \A k \in WorkCalls(w) : Trace(w)[k].i <= Cap
           /\ Cardinality(Calls(w, "lookup")) = Cardinality(Examined(w))
           /\ t.pc = "lookup"
                 => Examined(w) = 1..t.count /\ t.idx = t.count + 1
           /\ t.pc \in {"open", "download", "ingest", "mark", "count"}
                 => Examined(w) = 1..(t.count + 1) /\ t.idx = t.count + 1
           /\ t.pc = "done"
                 => /\ t.count = Min(Cap, n)
                    /\ Examined(w) = 1..Min(Cap, n)
                    /\ \A r \in DOMAIN db, i \in DOMAIN t.builds :
                          (i > Cap /\ RowIsFor(db[r], t.project_id, t.builds[i]))
                          => \E j \in 1..Cap :
                                RowIsFor(db[r], t.project_id, t.builds[j])

\* C15 witness: an invocation over more than Cap builds has ended after
\* skipping a fetched build and downloading another, with count = Cap.
C15_Witness ==
    \E w \in Workers :
        /\ task[w].pc = "done"
        /\ Len(task[w].builds) > Cap
        /\ task[w].count = Cap
        /\ \E k \in Calls(w, "lookup") : Trace(w)[k].res = "fetched"
        /\ Calls(w, "download") # {}

====
